---- MODULE Spec2Model ----
(***************************************************************************)
(* A model of the CHIP-8 interpreter: the addressed memory, the decoder,   *)
(* the execution engine, the driving fetch-decode-execute loop of main and *)
(* the background delay-timer thread.                                      *)
(*                                                                         *)
(* Arrays (v, stack, memory, pixels, nibbles) are functions over 0-based   *)
(* index ranges, as in the source.  u8 and u16 values are integers kept in *)
(* range by explicit reduction modulo 2^8 and 2^16 where the source wraps. *)
(* Where the source uses the checked-in-debug, wrapping-in-release integer *)
(* operators (+, -, +=, -=), the flag oc ("overflow checks") selects the   *)
(* build: TRUE panics on overflow, FALSE wraps.                            *)
(*                                                                         *)
(* History variables, read by no action: cycles (completed cycles), ticks  *)
(* (timer decrements), program (the image file), last (the instruction of  *)
(* the latest executed cycle with the registers and framebuffer it started *)
(* from), fetch_pc (the address the current instruction was fetched from), *)
(* calls (the call sites of the open subroutine calls, oldest first) and   *)
(* allowed (the delay-timer values a timer whose tick is one atomic step   *)
(* could hold after the same history of ticks, StoreDT and LoadDT).        *)
(***************************************************************************)
EXTENDS Integers, Sequences, FiniteSets, TLC

VARIABLES v, i, dt, st, pc, sp, stack, memory, pixels,
          phase, fetched, decoded, err, tpc, cycles, ticks, program, last,
          fetch_pc, calls, allowed

vars == <<v, i, dt, st, pc, sp, stack, memory, pixels,
          phase, fetched, decoded, err, tpc, cycles, ticks, program, last,
          fetch_pc, calls, allowed>>

(***************************************************************************)
(* Program constants.                                                      *)
(***************************************************************************)
PC_INCREMENT == 2
PC_START == 512
NUM_REGISTERS == 16
STACK_SIZE == 16
MEMORY_SIZE == 4096
NROWS == 32
NCOLS == 64
MASK == 4095
U8 == 256
U16 == 65536
V0 == 0
VF == 15

SPRITES ==
  << 240, 144, 144, 144, 240,
      32,  96,  32,  32, 112,
     240,  16, 240, 128, 240,
     240,  16, 240,  16, 240,
     144, 144, 240,  16,  16,
     240, 128, 240,  16, 240,
     240, 128, 240, 144, 240,
     240,  16,  32,  64,  64,
     240, 144, 240, 144, 240,
     240, 144, 240,  16, 240,
     240, 144, 240, 144, 144,
     224, 144, 224, 144, 224,
     240, 128, 128, 128, 240,
     224, 144, 144, 144, 224,
     240, 128, 240, 128, 240,
     240, 128, 240, 128, 128 >>

(***************************************************************************)
(* Bitwise operators on naturals (&, |, ^ of the source).                  *)
(***************************************************************************)
RECURSIVE BitAnd(_, _)
BitAnd(a, b) ==
  IF a = 0 \/ b = 0 THEN 0
  ELSE (a % 2) * (b % 2) + 2 * BitAnd(a \div 2, b \div 2)

RECURSIVE BitOr(_, _)
BitOr(a, b) ==
  IF a = 0 THEN b
  ELSE IF b = 0 THEN a
  ELSE (IF a % 2 = 1 \/ b % 2 = 1 THEN 1 ELSE 0) + 2 * BitOr(a \div 2, b \div 2)

RECURSIVE BitXor(_, _)
BitXor(a, b) ==
  IF a = 0 THEN b
  ELSE IF b = 0 THEN a
  ELSE (IF a % 2 # b % 2 THEN 1 ELSE 0) + 2 * BitXor(a \div 2, b \div 2)

(***************************************************************************)
(* Results: Ok(x) and Err(e) of Result<T, E>; a panic travels the same way *)
(* as an Err (it unwinds every caller) but is no error value.              *)
(***************************************************************************)
Ok(x) == [ok |-> TRUE, val |-> x]
Err(e) == [ok |-> FALSE, err |-> e]

NoError == [kind |-> "None", arg |-> 0]
StackOverflow == [kind |-> "StackOverflow", arg |-> 0]
InfiniteLoop == [kind |-> "InfiniteLoop", arg |-> 0]
InvalidRegister(n) == [kind |-> "InvalidRegister", arg |-> n]
SegmentationFault(a) == [kind |-> "SegmentationFault", arg |-> a]
InvalidInstruction(w) == [kind |-> "InvalidInstruction", arg |-> w]
Panic == [kind |-> "Panic", arg |-> 0]

\* The variants of CpuError that the engine can return.
CpuErrorKinds ==
  {"StackOverflow", "InfiniteLoop", "InvalidAddress", "InvalidRegister",
   "SegmentationFault", "InvalidInstruction", "ProgramLoadError"}

(***************************************************************************)
(* address.rs: u16 arithmetic of Address.                                  *)
(***************************************************************************)
\* a + b on u16: panics on overflow with overflow checks, wraps without.
AddressAdd(a, b, oc) ==
  IF a + b < U16 THEN Ok(a + b)
  ELSE IF oc THEN Err(Panic) ELSE Ok((a + b) % U16)

\* a - b on u16.
AddressSub(a, b, oc) ==
  IF a >= b THEN Ok(a - b)
  ELSE IF oc THEN Err(Panic) ELSE Ok((a - b) % U16)

offset(a, off, oc) == AddressAdd(a, off, oc)

(***************************************************************************)
(* register.rs: TryFrom<u8> for VRegister.                                 *)
(***************************************************************************)
VRegister_try_from(value) ==
  IF value \in 0 .. 15 THEN Ok(value) ELSE Err(InvalidRegister(value))

(***************************************************************************)
(* memory.rs                                                               *)
(***************************************************************************)
MemoryNew == [a \in 0 .. MEMORY_SIZE - 1 |-> 0]

\* set_byte that returns the byte it has just written.
set_byte_ReturnsNew(mem, address, byte) ==
  IF address < MEMORY_SIZE
  THEN [ok |-> TRUE, val |-> byte,
        mem |-> [mem EXCEPT ![address] = byte]]
  ELSE [ok |-> FALSE, err |-> SegmentationFault(address), mem |-> mem]

\* Ok(previous byte) with the updated array, or Err(SegmentationFault).
set_byte(mem, address, byte) ==
  IF address < MEMORY_SIZE
  THEN [ok |-> TRUE, val |-> mem[address],
        mem |-> [mem EXCEPT ![address] = byte]]
  ELSE [ok |-> FALSE, err |-> SegmentationFault(address), mem |-> mem]

get_byte(mem, address) ==
  IF address < MEMORY_SIZE THEN Ok(mem[address])
  ELSE Err(SegmentationFault(address))

\* get_short that takes the byte at address as the low byte.
get_short_LittleEndian(mem, address, oc) ==
  LET incr == AddressAdd(address, 1, oc) IN
  IF ~incr.ok THEN incr
  ELSE LET msb == get_byte(mem, address)
           lsb == get_byte(mem, incr.val)
       IN IF msb.ok /\ lsb.ok THEN Ok(lsb.val * 256 + msb.val)
          ELSE Err(SegmentationFault(address))

\* address + Address(1), then both bytes; SegmentationFault(address) when
\* either read fails.
get_short(mem, address, oc) ==
  LET incr == AddressAdd(address, 1, oc) IN
  IF ~incr.ok THEN incr
  ELSE LET msb == get_byte(mem, address)
           lsb == get_byte(mem, incr.val)
       IN IF msb.ok /\ lsb.ok THEN Ok(msb.val * 256 + lsb.val)
          ELSE Err(SegmentationFault(address))

\* Iterations lo .. hi-1 of the loop of copy_to_offset, in the loop's order
\* and ending at the first failure; the range is halved rather than peeled
\* one iteration at a time to keep the evaluation shallow.  data is the
\* byte sequence data[0 .. len-1] of the source, held 1-based.
RECURSIVE copy_range(_, _, _, _, _)
copy_range(mem, data, start, lo, hi) ==
  IF lo >= hi THEN [ok |-> TRUE, mem |-> mem]
  ELSE IF hi = lo + 1
  THEN LET addr == offset(start, lo % U16, TRUE) IN
       IF ~addr.ok THEN [ok |-> FALSE, err |-> addr.err, mem |-> mem]
       ELSE LET w == set_byte(mem, addr.val, data[lo + 1]) IN
            IF w.ok THEN [ok |-> TRUE, mem |-> w.mem]
            ELSE [ok |-> FALSE, err |-> w.err, mem |-> w.mem]
  ELSE LET mid == (lo + hi) \div 2
           left == copy_range(mem, data, start, lo, mid)
       IN IF ~left.ok THEN left
          ELSE copy_range(left.mem, data, start, mid, hi)

copy_to_offset(mem, data, len, start) == copy_range(mem, data, start, 0, len)

(***************************************************************************)
(* screen.rs                                                               *)
(***************************************************************************)
ScreenNew == [y \in 0 .. NROWS - 1 |-> [x \in 0 .. NCOLS - 1 |-> FALSE]]

\* flip that turns the pixel on instead of inverting it.
flip_SetsOn(px, x, y) ==
  IF x >= NCOLS \/ y >= NROWS
  THEN [some |-> FALSE, px |-> px]
  ELSE [some |-> TRUE, val |-> px[y][x],
        px |-> [px EXCEPT ![y][x] = TRUE]]

\* flip that wraps coordinates past the edge to the opposite side.
flip_Wraps(px, x, y) ==
  [some |-> TRUE, val |-> px[y % NROWS][x % NCOLS],
   px |-> [px EXCEPT ![y % NROWS][x % NCOLS] = ~px[y % NROWS][x % NCOLS]]]

\* None, or Some(previous pixel) with the pixel inverted.
flip(px, x, y) ==
  IF x >= NCOLS \/ y >= NROWS
  THEN [some |-> FALSE, px |-> px]
  ELSE [some |-> TRUE, val |-> px[y][x],
        px |-> [px EXCEPT ![y][x] = ~px[y][x]]]

(***************************************************************************)
(* cpu.rs: the decoder.                                                    *)
(***************************************************************************)
\* split_into_nibbles with the two middle nibbles exchanged.
split_into_nibbles_SwapsXY(w) ==
  [k \in 0 .. 3 |->
     CASE k = 0 -> BitAnd(w, 61440) \div 4096
       [] k = 1 -> BitAnd(w, 240) \div 16
       [] k = 2 -> BitAnd(w, 3840) \div 256
       [] k = 3 -> BitAnd(w, 15)]

\* split_into_nibbles that masks the last nibble with 0x7.
split_into_nibbles_DropsHighBit(w) ==
  [k \in 0 .. 3 |->
     CASE k = 0 -> BitAnd(w, 61440) \div 4096
       [] k = 1 -> BitAnd(w, 3840) \div 256
       [] k = 2 -> BitAnd(w, 240) \div 16
       [] k = 3 -> BitAnd(w, 7)]

split_into_nibbles(w) ==
  [k \in 0 .. 3 |->
     CASE k = 0 -> BitAnd(w, 61440) \div 4096
       [] k = 1 -> BitAnd(w, 3840) \div 256
       [] k = 2 -> BitAnd(w, 240) \div 16
       [] k = 3 -> BitAnd(w, 15)]

decode(instruction) ==
  LET nibbles == split_into_nibbles(instruction)
      vx == VRegister_try_from(nibbles[1])
      vy == VRegister_try_from(nibbles[2])
      addr == BitAnd(instruction, MASK)
      lsb == BitAnd(instruction, 255)
      lsn == BitAnd(instruction, 15)
      n0 == nibbles[0]
      n1 == nibbles[1]
      n2 == nibbles[2]
      n3 == nibbles[3]
      \* vx? and vy?: the first failed conversion is returned.
      X(op) == IF vx.ok THEN Ok([op |-> op, x |-> vx.val]) ELSE vx
      XB(op) == IF vx.ok THEN Ok([op |-> op, x |-> vx.val, byte |-> lsb])
                ELSE vx
      XY(op) == IF ~vx.ok THEN vx
                ELSE IF ~vy.ok THEN vy
                ELSE Ok([op |-> op, x |-> vx.val, y |-> vy.val])
      A(op) == Ok([op |-> op, addr |-> addr])
  IN CASE n0 = 0 /\ n1 = 0 /\ n2 = 14 /\ n3 = 0 -> Ok([op |-> "ClearScreen"])
       [] n0 = 0 /\ n1 = 0 /\ n2 = 14 /\ n3 = 14 -> Ok([op |-> "Return"])
       [] n0 = 1 -> A("Jump")
       [] n0 = 2 -> A("Call")
       [] n0 = 3 -> XB("SkipIfEqualImm")
       [] n0 = 4 -> XB("SkipIfNotEqualImm")
       [] n0 = 5 /\ n3 = 0 -> XY("SkipIfEqual")
       [] n0 = 6 -> XB("LoadImm")
       [] n0 = 7 -> XB("AddImm")
       [] n0 = 8 /\ n3 = 0 -> XY("Move")
       [] n0 = 8 /\ n3 = 1 -> XY("Or")
       [] n0 = 8 /\ n3 = 2 -> XY("And")
       [] n0 = 8 /\ n3 = 3 -> XY("Xor")
       [] n0 = 8 /\ n3 = 4 -> XY("Add")
       [] n0 = 8 /\ n3 = 5 -> XY("Subtract")
       [] n0 = 8 /\ n3 = 6 -> X("ShiftRight")
       [] n0 = 8 /\ n3 = 7 -> XY("SubtractN")
       [] n0 = 8 /\ n3 = 14 -> X("ShiftLeft")
       [] n0 = 9 /\ n3 = 0 -> XY("SkipIfNotEqual")
       [] n0 = 10 -> A("LoadI")
       [] n0 = 11 -> A("JumpOffset")
       [] n0 = 12 -> XB("AndRandom")
       [] n0 = 13 ->
            IF ~vx.ok THEN vx
            ELSE IF ~vy.ok THEN vy
            ELSE Ok([op |-> "Draw", x |-> vx.val, y |-> vy.val, n |-> lsn])
       [] n0 = 15 /\ n2 = 0 /\ n3 = 7 -> X("LoadDT")
       [] n0 = 15 /\ n2 = 1 /\ n3 = 5 -> X("StoreDT")
       [] n0 = 15 /\ n2 = 1 /\ n3 = 8 -> Ok([op |-> "Nop"])
       [] n0 = 15 /\ n2 = 1 /\ n3 = 14 -> X("AddI")
       [] n0 = 15 /\ n2 = 2 /\ n3 = 9 -> X("LoadSprite")
       [] n0 = 15 /\ n2 = 3 /\ n3 = 3 -> X("StoreBCD")
       [] n0 = 15 /\ n2 = 5 /\ n3 = 5 -> X("Store")
       [] n0 = 15 /\ n2 = 6 /\ n3 = 5 -> X("Load")
       [] OTHER -> Err(InvalidInstruction(instruction))

(***************************************************************************)
(* cpu.rs: the execution engine.  c is the machine, a record of the fields *)
(* of Cpu that execute reads or writes; every instruction yields the next  *)
(* machine and the error it returns (NoError for Ok(())).                  *)
(***************************************************************************)
R(c) == [c |-> c, err |-> NoError]
F(c, e) == [c |-> c, err |-> e]

\* Nop, the placeholder of Fx18, with the body of LoadDT into V0.
Nop_ReadsTimer(c) == R([c EXCEPT !.v[V0] = c.dt])

Nop(c) == R(c)

ClearScreen(c) == R([c EXCEPT !.pixels = ScreenNew])

\* Return that reads the slot before it moves sp.
Return_ReadsThenPops(c, oc) ==
  IF c.sp = 0 /\ oc THEN F(c, Panic)
  ELSE LET s == c.sp - 1 IN
       IF s \in 0 .. STACK_SIZE - 1
       THEN R([c EXCEPT !.sp = s, !.pc = c.stack[c.sp % STACK_SIZE]])
       ELSE F([c EXCEPT !.sp = s], Panic)

\* self.sp -= 1 on usize, then the bounds-checked index self.stack[self.sp].
\* A wrapped sp (2^64 - 1) is held as its residue -1; the index check that
\* follows it always panics.
Return(c, oc) ==
  IF c.sp = 0 /\ oc THEN F(c, Panic)
  ELSE LET s == c.sp - 1 IN
       IF s \in 0 .. STACK_SIZE - 1
       THEN R([c EXCEPT !.sp = s, !.pc = c.stack[s]])
       ELSE F([c EXCEPT !.sp = s], Panic)

\* Jump that compares the target with the advanced pc.
Jump_NoDecrement(c, addr, oc) ==
  IF c.pc = addr THEN F(c, InfiniteLoop) ELSE R([c EXCEPT !.pc = addr])

Jump(c, addr, oc) ==
  LET from == AddressSub(c.pc, PC_INCREMENT, oc) IN
  IF ~from.ok THEN F(c, from.err)
  ELSE IF from.val = addr THEN F(c, InfiniteLoop)
  ELSE R([c EXCEPT !.pc = addr])

JumpOffset(c, addr, oc) ==
  LET t == offset(addr, c.v[V0], oc) IN
  IF ~t.ok THEN F(c, t.err) ELSE R([c EXCEPT !.pc = t.val])

\* Call with the bound test off by one.
Call_OffByOne(c, addr) ==
  IF c.sp > STACK_SIZE THEN F(c, StackOverflow)
  ELSE R([c EXCEPT !.stack[c.sp] = c.pc, !.pc = addr, !.sp = c.sp + 1])

Call(c, addr) ==
  IF c.sp >= STACK_SIZE THEN F(c, StackOverflow)
  ELSE R([c EXCEPT !.stack[c.sp] = c.pc, !.pc = addr, !.sp = c.sp + 1])

\* self.pc += PC_INCREMENT when cond holds.
Skip(c, cond, oc) ==
  IF ~cond THEN R(c)
  ELSE LET t == AddressAdd(c.pc, PC_INCREMENT, oc) IN
       IF ~t.ok THEN F(c, t.err) ELSE R([c EXCEPT !.pc = t.val])

SkipIfEqualImm(c, reg, imm, oc) == Skip(c, c.v[reg] = imm, oc)

SkipIfNotEqualImm(c, reg, imm, oc) == Skip(c, c.v[reg] # imm, oc)

SkipIfEqual(c, regx, regy, oc) == Skip(c, c.v[regx] = c.v[regy], oc)

SkipIfNotEqual(c, regx, regy, oc) == Skip(c, c.v[regx] # c.v[regy], oc)

LoadImm(c, reg, imm) == R([c EXCEPT !.v[reg] = imm])

AddImm(c, reg, imm) == R([c EXCEPT !.v[reg] = (c.v[reg] + imm) % U8])

Move(c, regx, regy) == R([c EXCEPT !.v[regx] = c.v[regy]])

Or(c, regx, regy) == R([c EXCEPT !.v[regx] = BitOr(c.v[regx], c.v[regy])])

And(c, regx, regy) == R([c EXCEPT !.v[regx] = BitAnd(c.v[regx], c.v[regy])])

Xor(c, regx, regy) == R([c EXCEPT !.v[regx] = BitXor(c.v[regx], c.v[regy])])

\* rnd is the byte random::<u8>() returns.
AndRandom(c, reg, byte, rnd) == R([c EXCEPT !.v[reg] = BitAnd(byte, rnd)])

AddI(c, reg, oc) ==
  LET t == AddressAdd(c.i, c.v[reg], oc) IN
  IF ~t.ok THEN F(c, t.err) ELSE R([c EXCEPT !.i = t.val])

\* Add whose carry test is off by one.
Add_CarryOffByOne(c, regx, regy) ==
  LET sum == c.v[regx] + c.v[regy]
      v1 == [c.v EXCEPT ![regx] = sum % U8]
      v2 == [v1 EXCEPT ![VF] = IF sum > U8 THEN 1 ELSE 0]
  IN R([c EXCEPT !.v = v2])

\* (v[regx], vf) = v[regx].overflowing_add(v[regy]); then v[VF] = vf.
Add(c, regx, regy) ==
  LET sum == c.v[regx] + c.v[regy]
      v1 == [c.v EXCEPT ![regx] = sum % U8]
      v2 == [v1 EXCEPT ![VF] = IF sum >= U8 THEN 1 ELSE 0]
  IN R([c EXCEPT !.v = v2])

\* Subtract that sets VF only when Vx is strictly greater than Vy.
Subtract_StrictlyGreater(c, regx, regy) ==
  LET diff == (c.v[regx] - c.v[regy]) % U8
      v1 == [c.v EXCEPT ![VF] = IF c.v[regx] > c.v[regy] THEN 1 ELSE 0]
      v2 == [v1 EXCEPT ![regx] = diff]
  IN R([c EXCEPT !.v = v2])

\* v[VF] = !overflow; then v[regx] = diff.
Subtract(c, regx, regy) ==
  LET diff == (c.v[regx] - c.v[regy]) % U8
      overflow == c.v[regx] < c.v[regy]
      v1 == [c.v EXCEPT ![VF] = IF ~overflow THEN 1 ELSE 0]
      v2 == [v1 EXCEPT ![regx] = diff]
  IN R([c EXCEPT !.v = v2])

SubtractN(c, regx, regy) ==
  LET diff == (c.v[regy] - c.v[regx]) % U8
      overflow == c.v[regy] < c.v[regx]
      v1 == [c.v EXCEPT ![VF] = IF ~overflow THEN 1 ELSE 0]
      v2 == [v1 EXCEPT ![regx] = diff]
  IN R([c EXCEPT !.v = v2])

\* ShiftRight that takes VF from the value after the shift.
ShiftRight_FlagAfterShift(c, regx) ==
  LET v1 == [c.v EXCEPT ![regx] = c.v[regx] \div 2]
      v2 == [v1 EXCEPT ![VF] = BitAnd(v1[regx], 1)]
  IN R([c EXCEPT !.v = v2])

\* v[VF] = v[regx] & 1; then v[regx] >>= 1.
ShiftRight(c, regx) ==
  LET v1 == [c.v EXCEPT ![VF] = BitAnd(c.v[regx], 1)]
      v2 == [v1 EXCEPT ![regx] = v1[regx] \div 2]
  IN R([c EXCEPT !.v = v2])

\* v[VF] = (v[regx] & 0x80) >> 7; then v[regx] <<= 1.
ShiftLeft(c, regx) ==
  LET v1 == [c.v EXCEPT ![VF] = BitAnd(c.v[regx], 128) \div 128]
      v2 == [v1 EXCEPT ![regx] = (v1[regx] * 2) % U8]
  IN R([c EXCEPT !.v = v2])

LoadI(c, addr) == R([c EXCEPT !.i = addr])

LoadDT(c, reg) == R([c EXCEPT !.v[reg] = c.dt])

StoreDT(c, reg) == R([c EXCEPT !.dt = c.v[reg]])

LoadSprite(c, reg) == R([c EXCEPT !.i = BitAnd(c.v[reg], 15) * 5])

\* for r in 0..(reg + 1): one register per iteration, from index r on.
RECURSIVE load_from(_, _, _, _)
load_from(c, reg, r, oc) ==
  IF r >= reg + 1 THEN R(c)
  ELSE LET addr == offset(c.i, r, oc) IN
       IF ~addr.ok THEN F(c, addr.err)
       ELSE LET rg == VRegister_try_from(r) IN
            IF ~rg.ok THEN F(c, rg.err)
            ELSE LET b == get_byte(c.memory, addr.val) IN
                 IF ~b.ok THEN F(c, b.err)
                 ELSE load_from([c EXCEPT !.v[rg.val] = b.val], reg, r + 1, oc)

\* Load that leaves I after the last register loaded, as the original
\* CHIP-8 interpreter did.
Load_AdvancesI(c, reg, oc) ==
  LET r == load_from(c, reg, 0, oc) IN
    IF r.err = NoError THEN R([r.c EXCEPT !.i = (c.i + reg + 1) % U16]) ELSE r

Load(c, reg, oc) == load_from(c, reg, 0, oc)

RECURSIVE store_from(_, _, _, _)
store_from(c, reg, r, oc) ==
  IF r >= reg + 1 THEN R(c)
  ELSE LET addr == offset(c.i, r, oc) IN
       IF ~addr.ok THEN F(c, addr.err)
       ELSE LET rg == VRegister_try_from(r) IN
            IF ~rg.ok THEN F(c, rg.err)
            ELSE LET w == set_byte(c.memory, addr.val, c.v[rg.val]) IN
                 IF ~w.ok THEN F(c, w.err)
                 ELSE store_from([c EXCEPT !.memory = w.mem], reg, r + 1, oc)

\* Store that stops before register reg.
Store_Exclusive(c, reg, oc) ==
  IF reg = 0 THEN R(c) ELSE store_from(c, reg - 1, 0, oc)

Store(c, reg, oc) == store_from(c, reg, 0, oc)

\* StoreBCD whose tens digit is not reduced modulo 10.
StoreBCD_TensUnreduced(c, reg, oc) ==
  LET val == c.v[reg]
      w0 == set_byte(c.memory, c.i, val \div 100)
  IN IF ~w0.ok THEN F(c, w0.err)
     ELSE LET c1 == [c EXCEPT !.memory = w0.mem]
              a1 == offset(c.i, 1, oc)
          IN IF ~a1.ok THEN F(c1, a1.err)
             ELSE LET w1 == set_byte(c1.memory, a1.val, val \div 10) IN
                  IF ~w1.ok THEN F(c1, w1.err)
                  ELSE LET c2 == [c1 EXCEPT !.memory = w1.mem]
                           a2 == offset(c.i, 2, oc)
                       IN IF ~a2.ok THEN F(c2, a2.err)
                          ELSE LET w2 == set_byte(c2.memory, a2.val, val % 10) IN
                               IF ~w2.ok THEN F(c2, w2.err)
                               ELSE R([c2 EXCEPT !.memory = w2.mem])

\* val / 100, (val / 10) % 10 and val % 10 written to i, i + 1 and i + 2,
\* each set_byte followed by ?.
StoreBCD(c, reg, oc) ==
  LET val == c.v[reg]
      w0 == set_byte(c.memory, c.i, val \div 100)
  IN IF ~w0.ok THEN F(c, w0.err)
     ELSE LET c1 == [c EXCEPT !.memory = w0.mem]
              a1 == offset(c.i, 1, oc)
          IN IF ~a1.ok THEN F(c1, a1.err)
             ELSE LET w1 == set_byte(c1.memory, a1.val, (val \div 10) % 10) IN
                  IF ~w1.ok THEN F(c1, w1.err)
                  ELSE LET c2 == [c1 EXCEPT !.memory = w1.mem]
                           a2 == offset(c.i, 2, oc)
                       IN IF ~a2.ok THEN F(c2, a2.err)
                          ELSE LET w2 == set_byte(c2.memory, a2.val, val % 10) IN
                               IF ~w2.ok THEN F(c2, w2.err)
                               ELSE R([c2 EXCEPT !.memory = w2.mem])

\* The inner loop of Draw, for bit index k = 7 down to 0 of one sprite row:
\* a set bit flips pixel (xx, y) and stores the flip's result in VF; a flip
\* that returns None leaves the loop.  xx <= 63 + 8, so xx += 1 cannot
\* overflow a u8.
RECURSIVE draw_bits(_, _, _, _, _)
draw_bits(c, data, xx, y, k) ==
  IF k < 0 THEN c
  ELSE IF BitAnd(2 ^ k, data) > 0
       THEN LET f == flip(c.pixels, xx, y) IN
            IF f.some
            THEN draw_bits([c EXCEPT !.pixels = f.px,
                                     !.v[VF] = IF f.val THEN 1 ELSE 0],
                           data, xx + 1, y, k - 1)
            ELSE c
       ELSE draw_bits(c, data, xx + 1, y, k - 1)

\* The outer loop of Draw, from row index off on.  y <= 31 + 15.
RECURSIVE draw_rows(_, _, _, _, _, _)
draw_rows(c, x, y, off, n, oc) ==
  IF off >= n THEN R(c)
  ELSE LET addr == offset(c.i, off, oc) IN
       IF ~addr.ok THEN F(c, addr.err)
       ELSE LET data == get_byte(c.memory, addr.val) IN
            IF ~data.ok THEN F(c, data.err)
            ELSE draw_rows(draw_bits(c, data.val, x, y, 7),
                           x, y + 1, off + 1, n, oc)

Draw(c, regx, regy, n, oc) ==
  LET x == BitAnd(c.v[regx], NCOLS - 1)
      y == BitAnd(c.v[regy], NROWS - 1)
  IN draw_rows(c, x, y, 0, n, oc)

execute(c, ins, oc, rnd) ==
  CASE ins.op = "Nop" -> Nop(c)
    [] ins.op = "ClearScreen" -> ClearScreen(c)
    [] ins.op = "Return" -> Return(c, oc)
    [] ins.op = "Jump" -> Jump(c, ins.addr, oc)
    [] ins.op = "JumpOffset" -> JumpOffset(c, ins.addr, oc)
    [] ins.op = "Call" -> Call(c, ins.addr)
    [] ins.op = "SkipIfEqualImm" -> SkipIfEqualImm(c, ins.x, ins.byte, oc)
    [] ins.op = "SkipIfNotEqualImm" -> SkipIfNotEqualImm(c, ins.x, ins.byte, oc)
    [] ins.op = "SkipIfEqual" -> SkipIfEqual(c, ins.x, ins.y, oc)
    [] ins.op = "SkipIfNotEqual" -> SkipIfNotEqual(c, ins.x, ins.y, oc)
    [] ins.op = "LoadImm" -> LoadImm(c, ins.x, ins.byte)
    [] ins.op = "AddImm" -> AddImm(c, ins.x, ins.byte)
    [] ins.op = "Move" -> Move(c, ins.x, ins.y)
    [] ins.op = "Or" -> Or(c, ins.x, ins.y)
    [] ins.op = "And" -> And(c, ins.x, ins.y)
    [] ins.op = "Xor" -> Xor(c, ins.x, ins.y)
    [] ins.op = "AndRandom" -> AndRandom(c, ins.x, ins.byte, rnd)
    [] ins.op = "AddI" -> AddI(c, ins.x, oc)
    [] ins.op = "Add" -> Add(c, ins.x, ins.y)
    [] ins.op = "Subtract" -> Subtract(c, ins.x, ins.y)
    [] ins.op = "SubtractN" -> SubtractN(c, ins.x, ins.y)
    [] ins.op = "ShiftRight" -> ShiftRight(c, ins.x)
    [] ins.op = "ShiftLeft" -> ShiftLeft(c, ins.x)
    [] ins.op = "LoadI" -> LoadI(c, ins.addr)
    [] ins.op = "LoadDT" -> LoadDT(c, ins.x)
    [] ins.op = "StoreDT" -> StoreDT(c, ins.x)
    [] ins.op = "LoadSprite" -> LoadSprite(c, ins.x)
    [] ins.op = "Load" -> Load(c, ins.x, oc)
    [] ins.op = "Store" -> Store(c, ins.x, oc)
    [] ins.op = "StoreBCD" -> StoreBCD(c, ins.x, oc)
    [] ins.op = "Draw" -> Draw(c, ins.x, ins.y, ins.n, oc)

\* Ok(word) with pc advanced, or the error of get_short with pc as it was.
fetch(c, oc) ==
  LET instruction == get_short(c.memory, c.pc, oc) IN
  IF ~instruction.ok THEN [c |-> c, err |-> instruction.err, val |-> 0]
  ELSE LET t == AddressAdd(c.pc, PC_INCREMENT, oc) IN
       IF ~t.ok THEN [c |-> c, err |-> t.err, val |-> 0]
       ELSE [c |-> [c EXCEPT !.pc = t.val], err |-> NoError,
             val |-> instruction.val]

(***************************************************************************)
(* Program images, written as 16-bit instruction words in the encoding     *)
(* that decode reads.                                                      *)
(***************************************************************************)
CLS == 224
RET == 238
JP(a) == 4096 + a
CALL(a) == 8192 + a
SE(x, kk) == 12288 + x * 256 + kk
SNE(x, kk) == 16384 + x * 256 + kk
LD(x, kk) == 24576 + x * 256 + kk
ALU(x, y, k) == 32768 + x * 256 + y * 16 + k
LDI(a) == 40960 + a
JPV0(a) == 45056 + a
DRW(x, y, n) == 53248 + x * 256 + y * 16 + n
FX(x, kk) == 61440 + x * 256 + kk

\* The bytes of an image file holding the words ws, big-endian.
ProgramBytes(ws) ==
  [k \in 1 .. 2 * Len(ws) |->
     IF k % 2 = 1 THEN ws[(k + 1) \div 2] \div 256 ELSE ws[k \div 2] % 256]

\* Bounds of the model: the cycles the driving loop runs, the decrements
\* the timer thread performs, the depth of the deepest subroutine nest.
MaxCycles == 250
MaxTicks == 4
MaxDepth == 17

RegSamples == {0, 1, 15}
ByteSamples == {0, 1, 128, 255}
RandomSamples == {0, 90, 255}

\* Jumps: to itself, to another instruction, a two-instruction loop.
JumpPrograms ==
  { <<JP(512)>>,
    <<JP(516), JP(512), JP(516)>>,
    <<JP(514), JP(512)>>,
    <<LD(0, 1), JP(512)>>,
    <<JP(4094)>> }

\* d nested subroutines: subroutine j sits at 0x200 + 4j, calls the next
\* one and returns; the outermost caller then jumps to itself.
NestProgram(d) ==
  [k \in 1 .. 2 * d + 1 |->
     IF k = 2 * d + 1 THEN RET
     ELSE IF k % 2 = 1 THEN CALL(PC_START + 2 * (k + 1))
     ELSE IF k = 2 THEN JP(PC_START + 2) ELSE RET]

CallPrograms ==
  { <<CALL(512)>>,
    <<RET>>,
    <<CALL(514), RET>>,
    <<CALL(518), CALL(518), JP(516), CALL(522), RET, RET>> }
  \cup { NestProgram(d) : d \in {1, 3, MaxDepth - 1, MaxDepth} }

\* Two operand loads and one instruction of the 8xy_ family.
AluPrograms ==
  { <<LD(x, a), LD(y, b), ALU(x, y, k)>> :
      x \in RegSamples, y \in RegSamples,
      a \in ByteSamples, b \in ByteSamples, k \in {4, 5, 7} }

\* A sprite drawn twice in a row at (V0, V1), with VF preset.
DrawPrograms ==
  { <<LD(0, x), LD(1, y), LD(15, f), LDI(a), DRW(0, 1, n), DRW(0, 1, n)>> :
      x \in {0, 5, 60, 63, 70}, y \in {0, 29, 31, 40}, f \in {0, 1},
      a \in {0, 75, 4093}, n \in {0, 1, 5, 15} }
  \cup
  \* glyph "1" then glyph "0" over it; a draw addressed through VF.
  { <<LDI(5), DRW(0, 0, 1), LDI(0), DRW(0, 0, 1)>>,
    <<LDI(5), DRW(0, 0, 5), LDI(0), DRW(0, 0, 5), CLS, DRW(0, 0, 5)>>,
    <<LD(15, 3), LDI(0), DRW(15, 15, 2), DRW(15, 15, 2)>>,
    <<LD(15, 3), LDI(0), DRW(15, 0, 5), DRW(15, 0, 5)>> }

\* The delay timer written and read back.
TimerPrograms ==
  { <<LD(0, 2), FX(0, 21), FX(1, 7), LD(2, 0), FX(2, 21), FX(3, 7)>>,
    <<LD(0, 1), FX(0, 21), FX(0, 21), FX(1, 7)>> }

\* One operand load and one shift (8xy6, 8xyE): every byte through V1, a
\* sample of bytes through V0, V1 and VF, with either value of the y nibble.
ShiftPrograms ==
  { <<LD(1, a), ALU(1, 0, k)>> : a \in 0 .. 255, k \in {6, 14} }
  \cup
  { <<LD(x, a), ALU(x, y, k)>> :
      x \in RegSamples, y \in {0, 3},
      a \in {1, 2, 127, 128, 129, 255}, k \in {6, 14} }

\* The word with the hexadecimal digits n0 n1 n2 n3.
Word(n0, n1, n2, n3) == n0 * 4096 + n1 * 256 + n2 * 16 + n3

\* Instruction words run as one-word images: every last nibble of the
\* families selected by it (0, 5, 8, 9), every last byte of family F, two
\* last bytes in three of family E, and four operand fields for each family
\* with a fixed layout.
WordSamples ==
  { Word(0, n1, n2, n3) : n1 \in {0, 1}, n2 \in {0, 14}, n3 \in 0 .. 15 }
  \cup
  { Word(n0, xy[1], xy[2], n3) :
      n0 \in {5, 8, 9}, xy \in {<<1, 2>>, <<10, 15>>}, n3 \in 0 .. 15 }
  \cup
  { Word(14, 3, n2, n3) : n2 \in {0, 9, 10}, n3 \in 0 .. 15 }
  \cup
  { Word(15, 4, n2, n3) : n2 \in 0 .. 15, n3 \in 0 .. 15 }
  \cup
  { Word(15, n1, b[1], b[2]) :
      n1 \in {0, 15},
      b \in {<<0, 7>>, <<0, 10>>, <<1, 5>>, <<1, 8>>, <<1, 14>>, <<2, 9>>,
              <<3, 3>>, <<5, 5>>, <<6, 5>>} }
  \cup
  { n0 * 4096 + low :
      n0 \in {1, 2, 3, 4, 6, 7, 10, 11, 12, 13},
      low \in {0, 291, 2748, 4095} }

DecodePrograms == { <<w>> : w \in WordSamples }

\* V0..V2 stored at I and loaded back; a Load that runs off the end of
\* memory after a Store that did not; Store and Load with I = 0x1000.
MemoryPrograms ==
  { <<LD(0, 17), LD(1, 34), LD(2, 51), LDI(a), FX(x, 85),
      LD(0, 0), LD(1, 0), LD(2, 0), FX(x, 101)>> :
      a \in {768, 4093, 4094, 4095}, x \in {0, 1, 2, 15} }
  \cup
  { <<LD(0, 17), LD(1, 34), LDI(4094), FX(1, 85),
      LD(0, 0), LD(1, 0), FX(x, 101)>> : x \in {1, 2, 15} }
  \cup
  { <<LD(0, 1), LDI(4095), FX(0, 30), FX(0, k)>> : k \in {85, 101} }

\* The decimal digits of every byte written at 0x300, and of two bytes
\* written across and past the end of memory.
BcdPrograms ==
  { <<LD(0, b), LDI(768), FX(0, 51)>> : b \in 0 .. 255 }
  \cup
  { <<LD(0, b), LDI(a), FX(0, 51)>> :
      b \in {109, 255}, a \in {4093, 4094, 4095} }
  \cup
  { <<LD(0, 1), LDI(4095), FX(0, 30), LD(0, 255), FX(0, 51)>> }

\* Fetches at and past the end of memory: PC = 0xFFF by a Jump, PC = 0x1000
\* and 0x10FE by JumpOffset, PC = 0x1000 by running off the end (LD V0, 0
\* stored at 0xFFE), PC = 0x1002 by a skip stored at 0xFFE (SE V1, 0), and
\* PC = 0x1000 by a Return from a Call stored at 0xFFE.
FetchPrograms ==
  { <<JP(4095)>>,
    <<LD(0, 1), JPV0(4095)>>,
    <<LD(0, 255), JPV0(4095)>>,
    <<LD(0, 96), LD(1, 0), LDI(4094), FX(1, 85), JP(4094)>>,
    <<LD(0, 49), LD(1, 0), LDI(4094), FX(1, 85), JP(4094)>>,
    <<LD(0, 34), LD(1, 10), LDI(4094), FX(1, 85), JP(4094), RET>> }

\* The number of AddI's of 255 that take I from 0xFFF past 0xFFFF.
IndexChain == (U16 - 1 - MASK) \div (U8 - 1) + 1

\* I = 0xFFF, then AddI of V0 = 255 until I + V0 no longer fits 16 bits.
IndexPrograms ==
  { <<LD(0, 255), LDI(4095)>> \o [k \in 1 .. IndexChain |-> FX(0, 30)] }

\* LD V0, 5; LD I, 0x050; DRW V0, V0, 5.
GlyphProgram == <<LD(0, 5), LDI(80), DRW(0, 0, 5)>>

Programs ==
  JumpPrograms \cup CallPrograms \cup AluPrograms \cup DrawPrograms
    \cup TimerPrograms \cup ShiftPrograms \cup DecodePrograms
    \cup MemoryPrograms \cup BcdPrograms \cup FetchPrograms
    \cup IndexPrograms \cup {GlyphProgram}

(***************************************************************************)
(* The machine as one record, and the state after Cpu::new.                *)
(***************************************************************************)
\* Memory::new followed by the copy of the font to address 0.
FontMemory == copy_to_offset(MemoryNew, SPRITES, Len(SPRITES), 0)

cpu ==
  [v |-> v, i |-> i, dt |-> dt, pc |-> pc, sp |-> sp, stack |-> stack,
   memory |-> memory, pixels |-> pixels]

NoInstruction == [op |-> "None"]

\* The timer tick as one atomic step: if DT > 0 then DT := DT - 1.
AtomicTick(a) == IF a > 0 THEN a - 1 ELSE a

\* allowed holds pairs <<value, done>>: a delay-timer value of the
\* atomic-tick timer, and whether the tick now in progress (if any) has
\* taken effect in it.  Pending adds the values in which it takes effect now.
Pending(S) == S \cup { <<AtomicTick(p[1]), TRUE>> : p \in { q \in S : ~q[2] } }

\* Cpu::new on the image file holding the words ws.
Boot(ws) ==
    LET bytes == ProgramBytes(ws)
        m0 == FontMemory
        m1 == copy_to_offset(m0.mem, bytes, Len(bytes), PC_START)
        loaded == m0.ok /\ m1.ok
    IN /\ program = bytes
       /\ memory = IF m0.ok THEN m1.mem ELSE m0.mem
       /\ err = IF ~m0.ok THEN m0.err ELSE IF ~m1.ok THEN m1.err ELSE NoError
       /\ phase = IF loaded THEN "fetch" ELSE "halted"
       /\ v = [r \in 0 .. NUM_REGISTERS - 1 |-> 0]
       /\ i = 0
       /\ dt = 0
       /\ st = 0
       /\ pc = PC_START
       /\ sp = 0
       /\ stack = [s \in 0 .. STACK_SIZE - 1 |-> 0]
       /\ pixels = ScreenNew
       /\ fetched = 0
       /\ decoded = NoInstruction
       /\ tpc = "wait"
       /\ cycles = 0
       /\ ticks = 0
       /\ last = [instr |-> NoInstruction, v |-> v, pixels |-> pixels,
                  err |-> NoError]
       /\ fetch_pc = PC_START
       /\ calls = <<>>
       /\ allowed = {<<0, TRUE>>}

Init == \E ws \in Programs : Boot(ws)

(***************************************************************************)
(* main.rs: the driving loop.  A stage that fails ends the process.        *)
(***************************************************************************)
Fetch ==
  /\ phase = "fetch"
  /\ cycles < MaxCycles
  /\ \E oc \in BOOLEAN :
       LET r == fetch(cpu, oc) IN
         /\ pc' = r.c.pc
         /\ fetched' = r.val
         /\ err' = r.err
         /\ phase' = IF r.err = NoError THEN "decode" ELSE "halted"
  /\ fetch_pc' = pc
  /\ UNCHANGED <<v, i, dt, st, sp, stack, memory, pixels, decoded, tpc,
                 cycles, ticks, program, last, calls, allowed>>

\* Decode that steps over a word it cannot decode and goes on to the next.
Decode_SkipsInvalid ==
  /\ phase = "decode"
  /\ LET r == decode(fetched) IN
       /\ decoded' = IF r.ok THEN r.val ELSE decoded
       /\ err' = IF r.ok THEN NoError ELSE r.err
       /\ phase' = IF r.ok THEN "execute" ELSE "fetch"
  /\ UNCHANGED <<v, i, dt, st, pc, sp, stack, memory, pixels, fetched, tpc,
                 cycles, ticks, program, last, fetch_pc, calls, allowed>>

Decode ==
  /\ phase = "decode"
  /\ LET r == decode(fetched) IN
       /\ decoded' = IF r.ok THEN r.val ELSE decoded
       /\ err' = IF r.ok THEN NoError ELSE r.err
       /\ phase' = IF r.ok THEN "execute" ELSE "halted"
  /\ UNCHANGED <<v, i, dt, st, pc, sp, stack, memory, pixels, fetched, tpc,
                 cycles, ticks, program, last, fetch_pc, calls, allowed>>

\* last records the instruction of the cycle and the registers and
\* framebuffer it started from.
Execute ==
  /\ phase = "execute"
  /\ \E oc \in BOOLEAN :
     \E rnd \in (IF decoded.op = "AndRandom" THEN RandomSamples ELSE {0}) :
       LET r == execute(cpu, decoded, oc, rnd) IN
         /\ v' = r.c.v
         /\ i' = r.c.i
         /\ dt' = r.c.dt
         /\ pc' = r.c.pc
         /\ sp' = r.c.sp
         /\ stack' = r.c.stack
         /\ memory' = r.c.memory
         /\ pixels' = r.c.pixels
         /\ err' = r.err
         /\ phase' = IF r.err = NoError THEN "fetch" ELSE "halted"
         /\ cycles' = IF r.err = NoError THEN cycles + 1 ELSE cycles
         /\ last' = [instr |-> decoded, v |-> v, pixels |-> pixels,
                     err |-> r.err]
         /\ calls' = CASE r.err # NoError -> calls
                      [] decoded.op = "Call" -> Append(calls, fetch_pc)
                      [] decoded.op = "Return" ->
                           SubSeq(calls, 1, Len(calls) - 1)
                      [] OTHER -> calls
         /\ allowed' = CASE r.err # NoError -> allowed
                        [] decoded.op = "StoreDT" ->
                             { <<v[decoded.x], p[2]>> : p \in Pending(allowed) }
                        [] decoded.op = "LoadDT" ->
                             { p \in Pending(allowed) : p[1] = dt }
                        [] OTHER -> allowed
  /\ UNCHANGED <<st, fetched, decoded, tpc, ticks, program, fetch_pc>>

(***************************************************************************)
(* cpu.rs, ticker.rs: the timer thread runs the closure once per message:  *)
(* an atomic load of dt, then, when the value read was > 0, an atomic      *)
(* fetch_sub(1), which wraps.  The thread ends with the process.           *)
(***************************************************************************)
TickLoad ==
  /\ phase # "halted"
  /\ tpc = "wait"
  /\ ticks < MaxTicks
  /\ tpc' = IF dt > 0 THEN "sub" ELSE "wait"
  /\ allowed' = IF dt > 0 THEN { <<p[1], FALSE>> : p \in allowed }
                ELSE { <<AtomicTick(p[1]), TRUE>> : p \in allowed }
  /\ UNCHANGED <<v, i, dt, st, pc, sp, stack, memory, pixels, phase, fetched,
                 decoded, err, cycles, ticks, program, last, fetch_pc, calls>>

\* A tick that counts the sound timer down as well.
TickSub_AlsoSound ==
  /\ phase # "halted"
  /\ tpc = "sub"
  /\ dt' = (dt - 1) % U8
  /\ st' = (st - 1) % U8
  /\ tpc' = "wait"
  /\ ticks' = ticks + 1
  /\ allowed' = { p \in Pending(allowed) : p[2] }
  /\ UNCHANGED <<v, i, pc, sp, stack, memory, pixels, phase, fetched,
                 decoded, err, cycles, program, last, fetch_pc, calls>>

TickSub ==
  /\ phase # "halted"
  /\ tpc = "sub"
  /\ dt' = (dt - 1) % U8
  /\ tpc' = "wait"
  /\ ticks' = ticks + 1
  /\ allowed' = { p \in Pending(allowed) : p[2] }
  /\ UNCHANGED <<v, i, st, pc, sp, stack, memory, pixels, phase, fetched,
                 decoded, err, cycles, program, last, fetch_pc, calls>>

Next == Fetch \/ Decode \/ Execute \/ TickLoad \/ TickSub

Spec == Init /\ [][Next]_vars

(***************************************************************************)
(* The machine with a timer thread that ticks for as long as the process   *)
(* lives: ticker.rs schedules a repeating message every 16667 microseconds *)
(* and its thread runs the closure of cpu.rs once per message.  The engine *)
(* runs MaxLiveCycles cycles of an image and is then left waiting for its  *)
(* pacing signal.                                                          *)
(***************************************************************************)
MaxLiveCycles == 6

\* The delay timer set and left to run down under a two-instruction loop;
\* set to 2 and then to 0; set to 255; set to 2 by an image that then runs
\* into an invalid instruction.
LivePrograms ==
  { <<LD(0, 3), FX(0, 21), JP(518), JP(516)>>,
    <<LD(0, 2), FX(0, 21), LD(1, 0), FX(1, 21), JP(522), JP(520)>>,
    <<LD(0, 255), FX(0, 21), JP(518), JP(516)>>,
    <<LD(0, 2), FX(0, 21)>> }

LiveInit == \E ws \in LivePrograms : Boot(ws)

LiveFetch ==
  /\ phase = "fetch"
  /\ cycles < MaxLiveCycles
  /\ \E oc \in BOOLEAN :
       LET r == fetch(cpu, oc) IN
         /\ pc' = r.c.pc
         /\ fetched' = r.val
         /\ err' = r.err
         /\ phase' = IF r.err = NoError THEN "decode" ELSE "halted"
  /\ fetch_pc' = pc
  /\ UNCHANGED <<v, i, dt, st, sp, stack, memory, pixels, decoded, tpc,
                 cycles, ticks, program, last, calls, allowed>>

LiveTickLoad ==
  /\ phase # "halted"
  /\ tpc = "wait"
  /\ tpc' = IF dt > 0 THEN "sub" ELSE "wait"
  /\ allowed' = IF dt > 0 THEN { <<p[1], FALSE>> : p \in allowed }
                ELSE { <<AtomicTick(p[1]), TRUE>> : p \in allowed }
  /\ UNCHANGED <<v, i, dt, st, pc, sp, stack, memory, pixels, phase, fetched,
                 decoded, err, cycles, ticks, program, last, fetch_pc, calls>>

\* A tick whose fetch_sub subtracts nothing.
LiveTickSub_NoDecrement ==
  /\ phase # "halted"
  /\ tpc = "sub"
  /\ dt' = dt
  /\ tpc' = "wait"
  /\ ticks' = IF ticks < MaxTicks THEN ticks + 1 ELSE ticks
  /\ allowed' = { p \in Pending(allowed) : p[2] }
  /\ UNCHANGED <<v, i, st, pc, sp, stack, memory, pixels, phase, fetched,
                 decoded, err, cycles, program, last, fetch_pc, calls>>

\* ticks counts the decrements up to MaxTicks and stays there.
LiveTickSub ==
  /\ phase # "halted"
  /\ tpc = "sub"
  /\ dt' = (dt - 1) % U8
  /\ tpc' = "wait"
  /\ ticks' = IF ticks < MaxTicks THEN ticks + 1 ELSE ticks
  /\ allowed' = { p \in Pending(allowed) : p[2] }
  /\ UNCHANGED <<v, i, st, pc, sp, stack, memory, pixels, phase, fetched,
                 decoded, err, cycles, program, last, fetch_pc, calls>>

LiveNext == LiveFetch \/ Decode \/ Execute \/ LiveTickLoad \/ LiveTickSub

LiveSpec ==
  /\ LiveInit
  /\ [][LiveNext]_vars
  /\ WF_vars(LiveTickLoad)
  /\ WF_vars(LiveTickSub)

(***************************************************************************)
(* Properties.                                                             *)
(***************************************************************************)
\* The step that executes the decoded instruction op.
ExecStep(op) == phase = "execute" /\ phase' # "execute" /\ decoded.op = op

\* The step in which the timer thread performs its fetch_sub.
SubStep == tpc = "sub" /\ tpc' = "wait"

ImageOf(ws) == program = ProgramBytes(ws)

\* C1: a timer tick decrements DT only when DT is greater than zero, under
\* every interleaving with StoreDT and LoadDT: no tick takes DT from 0 to 255.
C1_TickOnlyAbovezero ==
  [][SubStep => (dt > 0 /\ dt' = dt - 1)]_vars

\* C2: a Call with fewer than 16 open calls stores the current PC in the
\* next stack slot, sets PC to the target and increments SP; a Call with 16
\* open calls fails with StackOverflow and leaves PC, SP and the stack
\* unchanged; the image that only calls itself stops after exactly 16 Calls.
C2_SixteenCallsThenOverflow ==
  [][/\ ExecStep("Call") =>
          IF Len(calls) < 16
          THEN /\ err' = NoError
               /\ stack' = [stack EXCEPT ![sp] = pc]
               /\ pc' = decoded.addr
               /\ sp' = sp + 1
          ELSE /\ err' = StackOverflow
               /\ phase' = "halted"
               /\ UNCHANGED <<pc, sp, stack>>
     /\ (ImageOf(<<CALL(512)>>) /\ phase' = "halted") =>
          (err' = StackOverflow /\ cycles' = 16 /\ Len(calls') = 16)
    ]_vars

C2_Witness ==
  /\ ImageOf(<<CALL(512)>>)
  /\ err = StackOverflow
  /\ cycles = 16
  /\ sp = 16

\* C3: a Return that finds the stack non-empty sets PC to the address of the
\* instruction following its matching Call (the latest Call still open) and
\* decrements SP by 1.
C3_ReturnRestoresCallerPc ==
  [][(ExecStep("Return") /\ Len(calls) > 0) =>
       /\ err' = NoError
       /\ pc' = calls[Len(calls)] + 2
       /\ sp' = sp - 1
    ]_vars

\* Three nested calls have been unwound in LIFO order.
C3_Witness ==
  /\ ImageOf(NestProgram(3))
  /\ last.instr.op = "Return"
  /\ calls = <<>>
  /\ pc = PC_START + 2
  /\ cycles = 6

\* C4: Return with an empty call stack ends the cycle with an error value
\* of the engine and leaves PC, SP and the stack unchanged.
C4_ReturnOnEmptyStackIsError ==
  [][(ExecStep("Return") /\ sp = 0) =>
       /\ err'.kind \in CpuErrorKinds
       /\ UNCHANGED <<pc, sp, stack>>
    ]_vars

\* C5: Jump(addr) fails with InfiniteLoop and changes nothing exactly when
\* addr is the address the Jump was fetched from (PC - 2 after fetch);
\* otherwise it sets PC to addr and changes nothing else.  The image that
\* is the single word JP 0x200 yields InfiniteLoop in its first cycle.
C5_JumpToSelfIsInfiniteLoop ==
  [][/\ ExecStep("Jump") =>
          /\ fetch_pc = pc - 2
          /\ IF decoded.addr = fetch_pc
             THEN /\ err' = InfiniteLoop
                  /\ pc' = pc
             ELSE /\ err' = NoError
                  /\ pc' = decoded.addr
          /\ UNCHANGED <<v, i, dt, st, sp, stack, memory, pixels>>
     /\ (ImageOf(<<JP(512)>>) /\ phase = "execute" /\ phase' # "execute") =>
          (err' = InfiniteLoop /\ cycles' = 0)
    ]_vars

C5_Witness ==
  /\ ImageOf(<<JP(512)>>)
  /\ err = InfiniteLoop
  /\ cycles = 0
  /\ pc = PC_START + 2

\* The cells a sprite of n rows stored at I covers when drawn at (x0, y0):
\* one cell per set bit of its rows, bit 7 leftmost, that falls on the
\* 64 x 32 screen.
SpriteCells(mem, I, x0, y0, n) ==
  { <<x0 + q[2], y0 + q[1]>> :
      q \in { rj \in (0 .. n - 1) \X (0 .. 7) :
                /\ (mem[I + rj[1]] \div (2 ^ (7 - rj[2]))) % 2 = 1
                /\ x0 + rj[2] < 64
                /\ y0 + rj[1] < 32 } }

\* The cells <<x, y>> in which two framebuffers differ.
Flipped(p, q) ==
  { xy \in (0 .. 63) \X (0 .. 31) : p[xy[2]][xy[1]] # q[xy[2]][xy[1]] }

\* C6: after a Draw that completes, VF = 1 if a pixel it flipped was on
\* before the flip and VF = 0 otherwise, also when it flips no pixel.
C6_VfIsAnyCollision ==
  [][(ExecStep("Draw") /\ err' = NoError) =>
       v'[VF] = IF \E xy \in Flipped(pixels, pixels') : pixels[xy[2]][xy[1]]
                THEN 1 ELSE 0
    ]_vars

\* The Draw of this step repeats the Draw of the cycle before it: the same
\* instruction, which completed, at the same x and y.
RepeatsLastDraw ==
  /\ ExecStep("Draw")
  /\ last.instr = decoded
  /\ last.err = NoError
  /\ last.v[decoded.x] % 64 = v[decoded.x] % 64
  /\ last.v[decoded.y] % 32 = v[decoded.y] % 32

\* C7: a Draw executed twice in a row at the same location restores the
\* framebuffer that preceded the first; if that was all-off and the sprite
\* has a visible set bit, the second Draw leaves VF = 1.  (A Draw changes
\* neither I nor memory, so the second reads the same sprite.)
C7_DrawTwiceRestores ==
  [][/\ ExecStep("Draw") => (i' = i /\ memory' = memory)
     /\ RepeatsLastDraw =>
          /\ err' = NoError
          /\ pixels' = last.pixels
          /\ (/\ last.pixels = ScreenNew
              /\ SpriteCells(memory, i, v[decoded.x] % 64, v[decoded.y] % 32,
                             decoded.n) # {})
             => (pixels' = ScreenNew /\ v'[VF] = 1)
    ]_vars

C7_Witness ==
  /\ phase = "fetch"
  /\ last.instr.op = "Draw"
  /\ last.err = NoError
  /\ last.pixels # ScreenNew
  /\ pixels = ScreenNew
  /\ v[VF] = 1
  /\ v[0] = 60

C9_AddCarry ==
  [][(ExecStep("Add") /\ decoded.x # 15) =>
       LET a == v[decoded.x]
           b == v[decoded.y]
       IN /\ err' = NoError
          /\ v' = [r \in 0 .. 15 |->
                     IF r = decoded.x THEN (a + b) % 256
                     ELSE IF r = 15 THEN (IF a + b >= 256 THEN 1 ELSE 0)
                     ELSE v[r]]
          /\ UNCHANGED <<i, pc, sp, stack, memory, pixels, dt, st>>
    ]_vars

C9_Witness ==
  /\ last.instr = [op |-> "Add", x |-> 0, y |-> 1]
  /\ last.err = NoError
  /\ last.v[0] = 255
  /\ last.v[1] = 1
  /\ v[0] = 0
  /\ v[15] = 1

C11_ShiftFlagBeforeShift ==
  [][/\ (ExecStep("ShiftRight") /\ decoded.x # 15) =>
          LET a == v[decoded.x]
          IN /\ err' = NoError
             /\ v' = [r \in 0 .. 15 |->
                        IF r = decoded.x THEN a \div 2
                        ELSE IF r = 15 THEN a % 2
                        ELSE v[r]]
     /\ (ExecStep("ShiftLeft") /\ decoded.x # 15) =>
          LET a == v[decoded.x]
          IN /\ err' = NoError
             /\ v' = [r \in 0 .. 15 |->
                        IF r = decoded.x THEN (2 * a) % 256
                        ELSE IF r = 15 THEN (a \div 128) % 2
                        ELSE v[r]]
    ]_vars

\* 3 shifted right: the result keeps bit 0 set, VF holds the bit shifted out.
C11_Witness ==
  /\ last.instr = [op |-> "ShiftRight", x |-> 1]
  /\ last.err = NoError
  /\ last.v[1] = 3
  /\ v[1] = 1
  /\ v[15] = 1
  /\ phase = "fetch"

\* The documented opcode table: the patterns in the documentation of
\* Instruction, and Fx18, which the decoder gives to the placeholder Nop.
\* The fields of a word are taken by division: x = bits 11-8, y = bits 7-4,
\* n = bits 3-0, kk = bits 7-0, nnn = bits 11-0.
Catalogue(w) ==
  LET f == w \div 4096
      x == (w \div 256) % 16
      y == (w \div 16) % 16
      n == w % 16
      kk == w % 256
      nnn == w % 4096
  IN CASE w = 224 -> [op |-> "ClearScreen"]
       [] w = 238 -> [op |-> "Return"]
       [] f = 1 -> [op |-> "Jump", addr |-> nnn]
       [] f = 2 -> [op |-> "Call", addr |-> nnn]
       [] f = 3 -> [op |-> "SkipIfEqualImm", x |-> x, byte |-> kk]
       [] f = 4 -> [op |-> "SkipIfNotEqualImm", x |-> x, byte |-> kk]
       [] f = 5 /\ n = 0 -> [op |-> "SkipIfEqual", x |-> x, y |-> y]
       [] f = 6 -> [op |-> "LoadImm", x |-> x, byte |-> kk]
       [] f = 7 -> [op |-> "AddImm", x |-> x, byte |-> kk]
       [] f = 8 /\ n = 0 -> [op |-> "Move", x |-> x, y |-> y]
       [] f = 8 /\ n = 1 -> [op |-> "Or", x |-> x, y |-> y]
       [] f = 8 /\ n = 2 -> [op |-> "And", x |-> x, y |-> y]
       [] f = 8 /\ n = 3 -> [op |-> "Xor", x |-> x, y |-> y]
       [] f = 8 /\ n = 4 -> [op |-> "Add", x |-> x, y |-> y]
       [] f = 8 /\ n = 5 -> [op |-> "Subtract", x |-> x, y |-> y]
       [] f = 8 /\ n = 6 -> [op |-> "ShiftRight", x |-> x]
       [] f = 8 /\ n = 7 -> [op |-> "SubtractN", x |-> x, y |-> y]
       [] f = 8 /\ n = 14 -> [op |-> "ShiftLeft", x |-> x]
       [] f = 9 /\ n = 0 -> [op |-> "SkipIfNotEqual", x |-> x, y |-> y]
       [] f = 10 -> [op |-> "LoadI", addr |-> nnn]
       [] f = 11 -> [op |-> "JumpOffset", addr |-> nnn]
       [] f = 12 -> [op |-> "AndRandom", x |-> x, byte |-> kk]
       [] f = 13 -> [op |-> "Draw", x |-> x, y |-> y, n |-> n]
       [] f = 15 /\ kk = 7 -> [op |-> "LoadDT", x |-> x]
       [] f = 15 /\ kk = 21 -> [op |-> "StoreDT", x |-> x]
       [] f = 15 /\ kk = 24 -> [op |-> "Nop"]
       [] f = 15 /\ kk = 30 -> [op |-> "AddI", x |-> x]
       [] f = 15 /\ kk = 41 -> [op |-> "LoadSprite", x |-> x]
       [] f = 15 /\ kk = 51 -> [op |-> "StoreBCD", x |-> x]
       [] f = 15 /\ kk = 85 -> [op |-> "Store", x |-> x]
       [] f = 15 /\ kk = 101 -> [op |-> "Load", x |-> x]
       [] OTHER -> NoInstruction

\* The step in which the driving loop decodes the fetched word.
DecodeStep == phase = "decode" /\ phase' # "decode"

\* decode agrees with the table on every 16-bit word of the table.
DecodesCatalogue ==
  \A w \in 0 .. U16 - 1 :
    Catalogue(w) # NoInstruction => decode(w) = Ok(Catalogue(w))

\* C12: for every word w of the documented opcode table, decode(w) returns
\* the instruction of its pattern with address = w & 0xFFF, x = bits 11-8,
\* y = bits 7-4, immediate = w & 0xFF, row count = w & 0xF; the result
\* depends on the word alone, and decoding changes no machine state.
C12_DecodeExtractsOperands ==
  [][(DecodeStep /\ Catalogue(fetched) # NoInstruction) =>
       /\ decoded' = Catalogue(fetched)
       /\ err' = NoError
       /\ phase' = "execute"
       /\ UNCHANGED <<v, i, dt, st, pc, sp, stack, memory, pixels>>
       /\ DecodesCatalogue
    ]_vars

\* Dxyn with x = 10, y = 11, n = 12 decoded, then executed.
C12_Witness ==
  /\ ImageOf(<<Word(13, 10, 11, 12)>>)
  /\ last.instr = [op |-> "Draw", x |-> 10, y |-> 11, n |-> 12]
  /\ decoded = last.instr
  /\ cycles = 1

\* decode rejects every 16-bit word that is not in the table.
RejectsOthers ==
  \A w \in 0 .. U16 - 1 :
    Catalogue(w) = NoInstruction => decode(w) = Err(InvalidInstruction(w))

AddressSamples == {0, 4095, 4096, 65535}

\* set_byte and get_byte at address a with byte b, on the memory mem.
WriteThenRead(mem, a, b) ==
  LET w == set_byte(mem, a, b)
      r == get_byte(mem, a)
  IN IF a < 4096
     THEN /\ w.ok
          /\ w.val = mem[a]
          /\ w.mem = [mem EXCEPT ![a] = b]
          /\ r = Ok(mem[a])
          /\ get_byte(w.mem, a) = Ok(b)
     ELSE /\ ~w.ok
          /\ w.err = SegmentationFault(a)
          /\ w.mem = mem
          /\ r = Err(SegmentationFault(a))

\* C14: for every address a in 0x000..0xFFF and byte b, set_byte(a, b)
\* succeeds, returns the byte stored at a before, changes no other cell,
\* and get_byte(a) then returns b; for a >= 0x1000 both fail with
\* SegmentationFault(a) and memory is unchanged.  Store(V0) and Load(V0),
\* which write and read the one cell I, behave accordingly.
C14_WriteThenRead ==
  [][/\ \A a \in AddressSamples \cup {i', pc'} : \A b \in {0, 255} :
          WriteThenRead(memory', a, b)
     /\ (ExecStep("Store") /\ decoded.x = 0) =>
          IF i < 4096
          THEN err' = NoError /\ memory' = [memory EXCEPT ![i] = v[0]]
          ELSE err' = SegmentationFault(i) /\ memory' = memory
     /\ (ExecStep("Load") /\ decoded.x = 0) =>
          IF i < 4096
          THEN err' = NoError /\ v' = [v EXCEPT ![0] = memory[i]]
          ELSE err' = SegmentationFault(i) /\ v' = v
    ]_vars

\* V0 = 17 stored at 0xFFF, cleared, and loaded back from there.
C14_Witness ==
  /\ last.instr = [op |-> "Load", x |-> 0]
  /\ last.err = NoError
  /\ last.v[0] = 0
  /\ i = 4095
  /\ memory[4095] = 17
  /\ v[0] = 17

\* The step in which the driving loop fetches.
FetchStep == phase = "fetch" /\ phase' # "fetch"

\* C15: fetch returns the big-endian word mem[PC] * 256 + mem[PC + 1] and
\* sets PC to PC + 2, changing nothing else; when PC or PC + 1 is not in
\* 0x000..0xFFF it returns SegmentationFault (no panic, no wrapped address)
\* and leaves PC unchanged.
C15_FetchBigEndianOrFault ==
  [][FetchStep =>
       /\ IF pc + 1 < 4096
          THEN /\ err' = NoError
               /\ fetched' = memory[pc] * 256 + memory[pc + 1]
               /\ pc' = pc + 2
          ELSE /\ err'.kind = "SegmentationFault"
               /\ err'.arg \in {pc, pc + 1}
               /\ pc' = pc
               /\ phase' = "halted"
       /\ UNCHANGED <<v, i, dt, st, sp, stack, memory, pixels>>
       \* no instruction takes PC past 0xFFF + 0xFF (JumpOffset)
       /\ pc <= 4350
    ]_vars

\* A fetch at 0xFFF, whose second byte lies outside memory.
C15_Witness ==
  /\ ImageOf(<<JP(4095)>>)
  /\ phase = "halted"
  /\ err = SegmentationFault(4095)
  /\ pc = 4095
  /\ cycles = 1

\* The number of transfers Store(Vx) and Load(Vx) make with I = a: one per
\* register V0..Vx up to the first cell a + k outside memory.
Transfers(a, x) ==
  IF a + x < 4096 THEN x + 1 ELSE IF a >= 4096 THEN 0 ELSE 4096 - a

\* C16: Store(Vx) copies V0..Vx to the cells I..I+x and Load(Vx) copies
\* those cells to V0..Vx; when a cell I + k is outside memory the
\* instruction fails with SegmentationFault(I + k) for the smallest such k,
\* with the transfers 0..k-1 made and no other; nothing else changes.
C16_BlockTransferStopsAtFault ==
  [][/\ ExecStep("Store") =>
          LET k == Transfers(i, decoded.x)
          IN /\ memory' = [a \in 0 .. 4095 |->
                             IF a >= i /\ a < i + k THEN v[a - i]
                             ELSE memory[a]]
             /\ err' = IF k <= decoded.x THEN SegmentationFault(i + k)
                       ELSE NoError
             /\ UNCHANGED <<v, i, pc, sp, stack, pixels>>
     /\ ExecStep("Load") =>
          LET k == Transfers(i, decoded.x)
          IN /\ v' = [r \in 0 .. 15 |-> IF r < k THEN memory[i + r] ELSE v[r]]
             /\ err' = IF k <= decoded.x THEN SegmentationFault(i + k)
                       ELSE NoError
             /\ UNCHANGED <<memory, i, pc, sp, stack, pixels>>
    ]_vars

\* Store(V2) at 0xFFE: V0 and V1 are in memory, the third cell is 0x1000.
C16_Witness ==
  /\ last.instr = [op |-> "Store", x |-> 2]
  /\ err = SegmentationFault(4096)
  /\ phase = "halted"
  /\ i = 4094
  /\ memory[4094] = 17
  /\ memory[4095] = 34
  /\ v[2] = 51

\* Load(V2) at 0xFFE: V0 and V1 are loaded, V2 is not.
C16_LoadWitness ==
  /\ last.instr = [op |-> "Load", x |-> 2]
  /\ err = SegmentationFault(4096)
  /\ v[0] = 17
  /\ v[1] = 34
  /\ last.v[0] = 0

\* C17: StoreBCD(Vx) with Vx = val writes val div 100, (val div 10) mod 10
\* and val mod 10 to I, I + 1, I + 2, so that the three cells then hold
\* decimal digits (the first at most 2) with 100 * mem[I] + 10 * mem[I + 1]
\* + mem[I + 2] = val; when one of the addresses is outside memory it fails
\* with SegmentationFault at that address, the digits before it written.
C17_StoreBcdDigits ==
  [][ExecStep("StoreBCD") =>
       LET val == v[decoded.x]
           digits == <<val \div 100, (val \div 10) % 10, val % 10>>
           k == Transfers(i, 2)
       IN /\ memory' = [a \in 0 .. 4095 |->
                          IF a >= i /\ a < i + k THEN digits[a - i + 1]
                          ELSE memory[a]]
          /\ err' = IF k <= 2 THEN SegmentationFault(i + k) ELSE NoError
          /\ k = 3 =>
               /\ 100 * memory'[i] + 10 * memory'[i + 1] + memory'[i + 2] = val
               /\ memory'[i] <= 2
               /\ memory'[i + 1] <= 9
               /\ memory'[i + 2] <= 9
          /\ UNCHANGED <<v, i, pc, sp, stack, pixels>>
    ]_vars

\* 255 stored as the digits 2, 5, 5.
C17_Witness ==
  /\ last.instr = [op |-> "StoreBCD", x |-> 0]
  /\ last.err = NoError
  /\ v[0] = 255
  /\ i = 768
  /\ memory[768] = 2
  /\ memory[769] = 5
  /\ memory[770] = 5

\* 109 stored at 0xFFE: the digits 1 and 0 are written, the third address
\* is 0x1000.
C17_FaultWitness ==
  /\ last.instr = [op |-> "StoreBCD", x |-> 0]
  /\ err = SegmentationFault(4096)
  /\ v[0] = 109
  /\ memory[4094] = 1
  /\ memory[4095] = 0

\* C18: the delay timer is linearizable with respect to the timer whose
\* tick is the single atomic step "if DT > 0 then DT := DT - 1": after every
\* history of ticks, StoreDT and LoadDT, the value of DT (and so every value
\* LoadDT returns) is one that the atomic-tick timer can hold after the
\* same history, each tick taking effect between its load and its fetch_sub.
C18_TimerLinearizable == \E p \in Pending(allowed) : p[1] = dt

\* A step of the timer thread: the engine's steps all change phase, the
\* timer's never do.
TimerStep == phase' = phase

\* C19: a step of the timer thread changes only the delay timer: the V
\* registers, I, PC, SP, the stack, memory, the framebuffer and the sound
\* timer are the same before and after it, wherever in the engine's cycle
\* it falls; and the delay timer changes in no other way than by 1 down.
C19_TickTouchesOnlyDelayTimer ==
  [][TimerStep =>
       /\ UNCHANGED <<v, i, pc, sp, stack, memory, pixels, st>>
       /\ UNCHANGED <<fetched, decoded, err, cycles>>
       /\ dt' \in {dt, (dt - 1) % U8}
    ]_vars

\* A whole tick has run between the decode and the execution of LoadDT.
C19_Witness ==
  /\ ticks = 1
  /\ dt = 1
  /\ tpc = "wait"
  /\ phase = "execute"
  /\ decoded = [op |-> "LoadDT", x |-> 1]
  /\ v[0] = 2
  /\ allowed = {<<1, TRUE>>}

\* C20: an error returned by fetch, decode or execute ends the run: the
\* stage that fails halts the loop, no later stage and no later cycle runs,
\* and registers, I, PC, SP, stack, memory and framebuffer stay as they
\* were when the error was returned.
C20_ErrorsAreFatal ==
  [][/\ (err' # NoError) <=> (phase' = "halted")
     /\ (err # NoError) =>
          UNCHANGED <<v, i, pc, sp, stack, memory, pixels, phase, err,
                      fetched, decoded, cycles>>
    ]_vars

\* Three instructions ran, the fourth word (0000) was rejected by decode.
C20_Witness ==
  /\ phase = "halted"
  /\ err = InvalidInstruction(0)
  /\ cycles = 3
  /\ pc = PC_START + 8
  /\ last.instr.op = "Add"
  /\ fetched = 0

\* The flag of an instruction of the 8xy_ family, from the operands a = Vx
\* and b = Vy read before it: carry, not-borrow, or the bit shifted out.
FlagOf(op, a, b) ==
  CASE op = "Add" -> IF a + b >= 256 THEN 1 ELSE 0
    [] op = "Subtract" -> IF a >= b THEN 1 ELSE 0
    [] op = "SubtractN" -> IF b >= a THEN 1 ELSE 0
    [] op = "ShiftRight" -> a % 2
    [] op = "ShiftLeft" -> (a \div 128) % 2

FlagOps == {"Add", "Subtract", "SubtractN", "ShiftRight", "ShiftLeft"}

\* C22: after each of Add, Subtract, SubtractN, ShiftRight and ShiftLeft,
\* for every choice of operand registers, Vx = VF included, VF holds the
\* flag of the operation, and so is 0 or 1.
C22_VfHoldsFlag ==
  [][(phase = "execute" /\ phase' # "execute" /\ decoded.op \in FlagOps) =>
       /\ v'[VF] = FlagOf(decoded.op, v[decoded.x],
                          IF decoded.op \in {"ShiftRight", "ShiftLeft"}
                          THEN 0 ELSE v[decoded.y])
       /\ v'[VF] \in {0, 1}
    ]_vars

\* C25: in every reachable state 0 <= SP <= 16, SP is the number of Calls
\* executed minus the number of Returns executed (the calls still open, whose
\* call sites calls holds in order), and stack slots 0 .. SP - 1 hold the
\* return addresses of those calls, in call order.
C25_StackDiscipline ==
  /\ 0 <= sp
  /\ sp <= STACK_SIZE
  /\ sp = Len(calls)
  /\ \A k \in 0 .. sp - 1 :
       k < Len(calls) => stack[k] = calls[k + 1] + PC_INCREMENT

IndexWriters == {"LoadI", "AddI", "LoadSprite"}

IndexReaders == {"Store", "Load", "StoreBCD", "Draw"}

\* C26: I is changed only by the execution of LoadI, AddI or LoadSprite:
\* every other step of the machine leaves it as it was, and Store, Load,
\* StoreBCD and Draw, which address memory through I, leave it unchanged
\* both when they succeed and when they fail part-way.
C26_IndexWrittenOnlyByItsThree ==
  [][/\ i' # i => (phase = "execute" /\ decoded.op \in IndexWriters)
     /\ (phase = "execute" /\ decoded.op \in IndexReaders) => i' = i
    ]_vars

\* A Draw of five or fifteen rows at I = 0xFFD has read three rows and
\* failed at the fourth, at 0x1000; I is where LoadI put it.
C26_Witness ==
  /\ last.instr.op = "Draw"
  /\ err = SegmentationFault(4096)
  /\ i = 4093

\* The instructions that read or write memory at I, and do so at least once.
AccessesAtIndex ==
  /\ phase = "execute"
  /\ decoded.op \in IndexReaders
  /\ decoded.op = "Draw" => decoded.n > 0

\* C23: AddI sets I to exactly I + Vx and JumpOffset sets PC to exactly
\* addr + V0: neither masks or wraps the sum (no reduction to 12 or to 16
\* bits), and neither fails by itself; an address of 0x1000 or more is
\* rejected only by the next memory access at it, which fails with
\* SegmentationFault carrying that address.
C23_ExactSumsFaultLater ==
  [][/\ ExecStep("AddI") => (err' = NoError /\ i' = i + v[decoded.x])
     /\ ExecStep("JumpOffset") =>
          (err' = NoError /\ pc' = decoded.addr + v[V0])
     /\ (AccessesAtIndex /\ i >= MEMORY_SIZE) => err' = SegmentationFault(i)
     /\ (FetchStep /\ pc >= MEMORY_SIZE) => err' = SegmentationFault(pc)
    ]_vars

\* The part of the machine the engine owns: everything but the timers.
Engine(c) ==
  [v |-> c.v, i |-> c.i, pc |-> c.pc, sp |-> c.sp, stack |-> c.stack,
   memory |-> c.memory, pixels |-> c.pixels]

TimerSamples == {0, 255}

\* One step of a run decides the next engine state from the engine state
\* alone: the delay timer (whatever the ticks so far made of it), the random
\* byte and, where the cycle completes, the build do not enter into it.  Two
\* runs of one image start in the same state, so they agree after every
\* cycle.
StepIsDetermined ==
  /\ (phase = "execute" /\ phase' # "execute"
        /\ decoded.op \notin {"AndRandom", "LoadDT"}) =>
       \A oc \in BOOLEAN :
         LET a == execute(cpu, decoded, oc, 0) IN
           /\ (a.err = NoError /\ err' = NoError) =>
                Engine(a.c) = Engine(cpu')
           /\ \A d \in TimerSamples : \A rnd \in RandomSamples :
                LET b == execute([cpu EXCEPT !.dt = d], decoded, oc, rnd) IN
                  b.err = a.err /\ Engine(b.c) = Engine(a.c)
  /\ FetchStep =>
       \A oc \in BOOLEAN : \A d \in TimerSamples :
         LET b == fetch([cpu EXCEPT !.dt = d], oc) IN
           (b.err = NoError /\ err' = NoError) =>
             (Engine(b.c) = Engine(cpu') /\ b.val = fetched')
  /\ (phase = "decode" /\ phase' # "decode" /\ err' = NoError) =>
       (decoded' = decode(fetched).val /\ Engine(cpu') = Engine(cpu))
  /\ TimerStep => Engine(cpu') = Engine(cpu)

\* The Draw that ends the third cycle of 6005 A050 D005.
GlyphDraw == ImageOf(GlyphProgram) /\ ExecStep("Draw")

\* The addresses of the sixteen glyphs of the font.
GlyphAddresses == { 5 * g : g \in 0 .. 15 }

\* C21 as stated: runs without AndRandom and LoadDT are deterministic, and
\* 6005 A050 D005 ends its third cycle without error with I addressing a
\* glyph of the font and the lit pixels those of the glyph's bits.
C21_DeterministicGlyphRun ==
  [][/\ StepIsDetermined
     /\ GlyphDraw =>
          /\ err' = NoError
          /\ i \in GlyphAddresses
          /\ Flipped(ScreenNew, pixels') = SpriteCells(memory, i, 5, 5, 5)
    ]_vars

\* C21, amended: runs without AndRandom and LoadDT are deterministic, and
\* 6005 A050 D005 ends its third cycle without error with one fixed
\* framebuffer, the blank one: I = 0x050 is the first address after the font
\* (0x000..0x04F), the five bytes there are 0, and the lit pixels (none) are
\* the bits of those bytes.
C21_DeterministicBlankRun ==
  [][/\ StepIsDetermined
     /\ GlyphDraw =>
          /\ err' = NoError
          /\ i = Len(SPRITES)
          /\ i \notin GlyphAddresses
          /\ \A r \in 0 .. 4 : memory[i + r] = 0
          /\ Flipped(ScreenNew, pixels') = SpriteCells(memory, i, 5, 5, 5)
          /\ pixels' = ScreenNew
    ]_vars

\* 6005 A050 D005 has run its three cycles: V0 = 5, I = 0x050, no pixel lit.
C21_Witness ==
  /\ ImageOf(GlyphProgram)
  /\ cycles = 3
  /\ last.instr = [op |-> "Draw", x |-> 0, y |-> 0, n |-> 5]
  /\ err = NoError
  /\ v[V0] = 5
  /\ i = 80
  /\ pixels = ScreenNew

\* C24: if from some point on the program executes no StoreDT then, the
\* timer thread ticking fairly for as long as the process lives, the delay
\* timer eventually is 0 and stays 0, whatever it held and whatever tick was
\* in progress at that point.
C24_TimerRunsDown ==
  (<>[][~ExecStep("StoreDT")]_vars) => <>[](dt = 0 \/ phase = "halted")

\* After StoreDT 2 and StoreDT 0 the timer has been decremented MaxTicks
\* times or more, which it can only be from the 255 that a fetch_sub in
\* progress at the second StoreDT left, and it has run down to 0.
C24_Witness ==
  /\ ImageOf(<<LD(0, 2), FX(0, 21), LD(1, 0), FX(1, 21), JP(522), JP(520)>>)
  /\ last.instr.op = "Jump"
  /\ ticks = MaxTicks
  /\ dt = 0
  /\ tpc = "wait"

====
